---------------------------- MODULE Spec2Model ----------------------------
(***************************************************************************)
(* A model of mcp-telegram: the entity resolver (utils.parse_entity), the  *)
(* message-window retrieval (Telegram.get_messages), the tool entry points *)
(* of server.py and the lifespan of the shared client.                     *)
(*                                                                         *)
(* Strings are sequences of one-character strings.  Python values that a   *)
(* call hands back are records with a tag: an int, a str, or a raised      *)
(* exception.                                                              *)
(***************************************************************************)
EXTENDS Integers, Sequences, FiniteSets, TLC

VARIABLES
    fnArg,            \* the input string a pure function is applied to
    fnOut,            \* what the pure function handed back (NoOut before the call)
    chat,             \* the messages of the chat, oldest first (message k has id k)
    readMax,          \* incoming messages with id <= readMax are read
    importTime,       \* the instant server.py was imported (defaults are evaluated then)
    credentials,      \* whether API_ID / API_HASH are configured
    tgClient,         \* Telegram._client: 0 for None, else the handle built
    clientsBuilt,     \* how many TelegramClient objects were constructed
    lsPc,             \* where app_lifespan stands
    lsError,          \* the exception app_lifespan is leaving with ("none": no error)
    connectOk,        \* client.connect() has completed
    connectCalls,     \* how often client.connect() was called
    disconnectCalls,  \* how often client.disconnect() was called
    last,             \* the tool call made by the latest step (NoCall otherwise)
    tasks,            \* the tool handlers the event loop runs, one record per task
    inflight,         \* the client calls issued and not yet completed
    uuids,            \* the tokens uuid.uuid4() has handed out, in call order
    filenames         \* the names get_unique_filename has returned, in call order

fnVars == <<fnArg, fnOut>>

envVars == <<chat, readMax>>

lifespanVars ==
    <<importTime, credentials, tgClient, clientsBuilt, lsPc, lsError, connectOk,
      connectCalls, disconnectCalls>>

serverVars == <<envVars, lifespanVars, last>>

taskVars == <<tasks, inflight>>

fileVars == <<uuids, filenames>>

vars == <<fnVars, serverVars, taskVars, fileVars>>

-----------------------------------------------------------------------------
(* Bounds of the model *)

\* longest entity string drawn as an input of parse_entity
MaxLen == 3

\* most messages the chat holds
MaxChat == 3

\* largest limit a tool is called with
MaxLimit == 2

\* most calls in a sequence of calls of one function
MaxCalls == 2

\* most tool handlers in progress at once
MaxTasks == 2

\* longest channel or message segment of a link drawn as an input of
\* parse_telegram_url
MaxSeg == 2

-----------------------------------------------------------------------------
(* Python values *)

NoOut == [tag |-> "none", int |-> 0, str |-> <<>>, exc |-> "none"]

IntVal(n) == [tag |-> "int", int |-> n, str |-> <<>>, exc |-> "none"]

StrVal(s) == [tag |-> "str", int |-> 0, str |-> s, exc |-> "none"]

Raised(e) == [tag |-> "raise", int |-> 0, str |-> <<>>, exc |-> e]

-----------------------------------------------------------------------------
(* Characters.  "sup2" stands for U+00B2 SUPERSCRIPT TWO: str.isdigit() is  *)
(* True for it, yet it is no decimal digit and int() rejects it.           *)

DecimalChars == {"0", "7"}

IsdigitChars == DecimalChars \cup {"sup2"}

Chars == {"-", "+", "a"} \cup IsdigitChars

DigitValue(c) == IF c = "7" THEN 7 ELSE 0

StringsUpTo(n) == UNION {[1..k -> Chars] : k \in 0..n}

\* str.lstrip(c): every leading occurrence of c is removed
RECURSIVE lstrip(_, _)
lstrip(s, c) ==
    IF s = <<>> THEN s
    ELSE IF Head(s) = c THEN lstrip(Tail(s), c) ELSE s

\* str.isdigit(): non-empty and every character has the Unicode digit property
isdigit(s) == Len(s) > 0 /\ \A i \in 1..Len(s) : s[i] \in IsdigitChars

\* the decimal value of a string of decimal digits
RECURSIVE DecimalValue(_)
DecimalValue(s) ==
    IF s = <<>> THEN 0
    ELSE 10 * DecimalValue(SubSeq(s, 1, Len(s) - 1)) + DigitValue(s[Len(s)])

IsDecimal(s) == Len(s) > 0 /\ \A i \in 1..Len(s) : s[i] \in DecimalChars

\* int(s) on a str: one optional sign, then decimal digits; ValueError otherwise
int(s) ==
    LET signed == Len(s) > 0 /\ s[1] \in {"-", "+"}
        body   == IF signed THEN Tail(s) ELSE s
    IN  IF IsDecimal(body)
        THEN IntVal(IF signed /\ s[1] = "-" THEN 0 - DecimalValue(body)
                                             ELSE DecimalValue(body))
        ELSE Raised("ValueError")

\* utils.parse_entity: int(entity) if entity.lstrip("-").isdigit() else entity
parse_entity(entity) ==
    IF isdigit(lstrip(entity, "-")) THEN int(entity) ELSE StrVal(entity)

-----------------------------------------------------------------------------
(* utils.parse_telegram_url.  The pattern                                  *)
(*     (?:https?://)?t(?:elegram)?\.me/c/(\d+)/(\d+)                       *)
(* is matched with re.match: from the start of the string, with nothing    *)
(* required of what follows the match.  A position is the number of        *)
(* characters consumed so far.                                             *)

\* a literal of the pattern, tried at each position of P: where it ends
MatchLit(s, P, lit) ==
    { p + Len(lit) : p \in { q \in P : /\ q + Len(lit) <= Len(s)
                                      /\ SubSeq(s, q + 1, q + Len(lit)) = lit } }

\* (?:https?://)?
MatchScheme(s, P) ==
    LET http == MatchLit(s, P, <<"h", "t", "t", "p">>)
        https == http \cup MatchLit(s, http, <<"s">>)
    IN  P \cup MatchLit(s, https, <<":", "/", "/">>)

\* t(?:elegram)?\.me/c/
MatchHost(s, P) ==
    LET t == MatchLit(s, P, <<"t">>)
        telegram == t \cup MatchLit(s, t, <<"e", "l", "e", "g", "r", "a", "m">>)
    IN  MatchLit(s, telegram, <<".", "m", "e", "/", "c", "/">>)

\* \d matches a decimal digit
MatchesDigitClass(c) == c \in DecimalChars

\* (\d+) tried at position p: the positions it may end at
DigitRunEnds(s, p) ==
    { q \in (p + 1)..Len(s) : \A i \in (p + 1)..q : MatchesDigitClass(s[i]) }

\* every way the pattern matches a prefix of s: where its groups stand
PatternMatches(s) ==
    UNION { UNION { UNION { { [g1 |-> <<a, b>>, g2 |-> <<c, d>>] :
                                d \in DigitRunEnds(s, c) } :
                            c \in MatchLit(s, {b}, <<"/">>) } :
                    b \in DigitRunEnds(s, a) } :
            a \in MatchHost(s, MatchScheme(s, {0})) }

\* the match re.match reports: the optional parts and the digit runs are
\* greedy, so it is the one that consumes most at each choice
MatchRank(s, m) == (m.g1[1] * (Len(s) + 1) + m.g1[2]) * (Len(s) + 1) + m.g2[2]

re_match(s) ==
    LET M == PatternMatches(s)
    IN  CHOOSE m \in M : \A n \in M : MatchRank(s, n) <= MatchRank(s, m)

\* match.group(i)
Group(s, g) == SubSeq(s, g[1] + 1, g[2])

UrlNone == [tag |-> "None", entity |-> NoOut, message_id |-> 0]

UrlPair(entity, message_id) ==
    [tag |-> "tuple", entity |-> entity, message_id |-> message_id]

\* utils.parse_telegram_url
parse_telegram_url(url) ==
    IF PatternMatches(url) = {} THEN UrlNone
    ELSE LET match == re_match(url)
             entity == parse_entity(Group(url, match.g1))
             message_id == int(Group(url, match.g2))
         IN  IF entity.tag = "raise" \/ message_id.tag = "raise"
             THEN UrlNone
             ELSE UrlPair(entity, message_id.int)

-----------------------------------------------------------------------------
(* utils.get_unique_filename.  A file name is a sequence of characters; a  *)
(* token of uuid.uuid4(), rendered by str(), stands in it as one element.  *)

\* uuid.uuid4(): a value never handed out before; the n-th call hands out
\* the n-th of these
Uuid4Values == << "uuid-1", "uuid-2", "uuid-3", "uuid-4", "uuid-5" >>

uuid4(handed) == Uuid4Values[Len(handed) + 1]

\* str.rfind(c): the last index of c in s, counted from 0; -1 when absent
rfind(s, c) ==
    LET at == {i \in 1..Len(s) : s[i] = c}
    IN  IF at = {} THEN 0 - 1 ELSE (CHOOSE i \in at : \A j \in at : j <= i) - 1

\* Path(s).name for a name without separators: Path(".") has no name
PathName(s) == IF s = <<".">> THEN <<>> ELSE s

\* Path(s).suffix: the last dot and what follows, unless the dot opens or
\* closes the name
PathSuffix(s) ==
    LET name == PathName(s)
        i == rfind(name, ".")
    IN  IF 0 < i /\ i < Len(name) - 1 THEN SubSeq(name, i + 1, Len(name)) ELSE <<>>

\* Path(s).stem
PathStem(s) ==
    LET name == PathName(s)
        i == rfind(name, ".")
    IN  IF 0 < i /\ i < Len(name) - 1 THEN SubSeq(name, 1, i) ELSE name

\* str(message.id)
StrOfId(id) == IF id = 5 THEN <<"5">> ELSE <<"7">>

\* message.file.mime_type.split("/") has two parts and the second is not empty:
\* that second part, else the empty string
MimeExtension(mime_type) ==
    LET slashes == {i \in 1..Len(mime_type) : mime_type[i] = "/"}
    IN  IF Cardinality(slashes) = 1
        THEN SubSeq(mime_type, (CHOOSE i \in slashes : TRUE) + 1, Len(mime_type))
        ELSE <<>>

\* fallback_name = f"download_{message.id}_{unique_prefix}"
FallbackName_NoPrefix(message, unique_prefix) ==
    <<"d", "o", "w", "n", "l", "o", "a", "d", "_">> \o StrOfId(message.id)

FallbackName(message, unique_prefix) ==
    <<"d", "o", "w", "n", "l", "o", "a", "d", "_">> \o StrOfId(message.id)
        \o <<"_", unique_prefix>>

\* utils.get_unique_filename, unique_prefix being str(uuid.uuid4())
get_unique_filename(message, unique_prefix) ==
    LET named == message.has_file /\ message.has_name
        original_filename == IF named THEN PathStem(message.name) ELSE <<>>
        original_suffix == IF named THEN PathSuffix(message.name) ELSE <<>>
        fallback_name == FallbackName(message, unique_prefix)
    IN  IF original_filename # <<>>
        THEN original_filename \o <<"_", unique_prefix>> \o original_suffix
        ELSE IF message.has_file /\ message.has_mime
                  /\ MimeExtension(message.mime_type) # <<>>
        THEN fallback_name \o <<".">> \o MimeExtension(message.mime_type)
        ELSE fallback_name

-----------------------------------------------------------------------------
(* The chat on the Telegram side.  Message k of the chat has id k and, when *)
(* it carries a date, the date 2k; the instants between two messages are    *)
(* the odd numbers, so the instant after n messages is 2n + 1.              *)

\* what a message of the chat may be: dated or not (message.date is None),
\* outgoing or incoming (message.out), with or without message.from_id
MsgKinds ==
    { [dated |-> TRUE,  out |-> FALSE, from_id |-> "user"],
      [dated |-> TRUE,  out |-> FALSE, from_id |-> "None"],
      [dated |-> TRUE,  out |-> TRUE,  from_id |-> "user"],
      [dated |-> FALSE, out |-> FALSE, from_id |-> "None"] }

DateOf(k) == 2 * k

Now == 2 * Len(chat) + 1

NewMessage(k, kind) ==
    [id |-> k, dated |-> kind.dated, date |-> IF kind.dated THEN DateOf(k) ELSE 0,
     out |-> kind.out, from_id |-> kind.from_id]

\* the unread messages of the dialog: incoming, newer than the read mark
IsUnread(m, mark) == m.dated /\ ~m.out /\ m.id > mark

UnreadCount(c, mark) == Cardinality({k \in 1..Len(c) : IsUnread(c[k], mark)})

Reverse(s) == [i \in 1..Len(s) |-> s[Len(s) + 1 - i]]

Min(a, b) == IF a <= b THEN a ELSE b

Max(a, b) == IF a >= b THEN a ELSE b

\* client.iter_messages(peer, offset_date=end_date): newest first, the messages
\* previous to end_date (a message without a date is delivered where it stands)
iter_messages(c, end_date) ==
    SelectSeq(Reverse(c), LAMBDA m : ~m.dated \/ m.date < end_date)

-----------------------------------------------------------------------------
(* Telegram.get_messages *)

\* timedelta(days=10) of the default start_date
DefaultWindowDays == 10

\* the defaults of start_date and end_date: evaluated once, when the def
\* statement runs at import
DefaultStartDate == importTime - DefaultWindowDays

DefaultEndDate == importTime

NoDialog == [present |-> FALSE, unread_messages_count |-> 0]

\* Telegram._get_dialog when the peer has a dialog entry
DialogOf(c, mark) == [present |-> TRUE, unread_messages_count |-> UnreadCount(c, mark)]

\* limit = min(limit, dialog.unread_messages_count) under unread
EffectiveLimit_Uncapped(limit, unread, dialog) == limit

EffectiveLimit(limit, unread, dialog) ==
    IF unread THEN Min(limit, dialog.unread_messages_count) ELSE limit

\* if message.date < start_date: break
TooOld_Inclusive(message, start_date) == message.date <= start_date

TooOld(message, start_date) == message.date < start_date

\* the try/except around a best-effort step ("mark_read", "get_peer_id")
\* catches what the step raises
Swallowed_NoHandlerForMarkRead(step) == step # "mark_read"

Swallowed(step) == step \in {"mark_read", "get_peer_id"}

\* what a best-effort step may do when it is reached
StepOutcomes(reached) == IF reached THEN {"ok", "raise"} ELSE {"skipped"}

\* if mark_as_read: the flag alone decides whether mark_read is called on a
\* message that passed the date and limit tests
MarkReadReached_IgnoresFlag(mark_as_read) == TRUE

MarkReadReached(mark_as_read) == mark_as_read

\* the loop's state: the results so far, the read mark on the Telegram side,
\* the messages mark_read was called on, the messages a step raised for, and
\* the exception that left the loop ("none": none did)
LoopStart(mark) ==
    [results |-> <<>>, readMax |-> mark, markAttempts |-> {}, markFailed |-> {},
     peerFailed |-> {}, exc |-> "none"]

\* the body of the loop from "if mark_as_read" on, for one message
ProcessMessage(message, acc, markOutcome, peerOutcome) ==
    LET marked ==
            [acc EXCEPT
                !.markAttempts = IF markOutcome = "skipped" THEN @ ELSE @ \cup {message.id},
                !.markFailed = IF markOutcome = "raise" THEN @ \cup {message.id} ELSE @,
                !.readMax = IF markOutcome = "ok" THEN Max(@, message.id) ELSE @]
        sender_id == IF peerOutcome = "ok" THEN message.from_id ELSE "None"
    IN  IF markOutcome = "raise" /\ ~Swallowed("mark_read")
        THEN [marked EXCEPT !.exc = "Exception"]
        ELSE IF peerOutcome = "raise" /\ ~Swallowed("get_peer_id")
        THEN [marked EXCEPT !.peerFailed = @ \cup {message.id}, !.exc = "Exception"]
        ELSE [marked EXCEPT
                !.peerFailed = IF peerOutcome = "raise" THEN @ \cup {message.id} ELSE @,
                !.results = Append(@, [message_id |-> message.id,
                                       sender_id  |-> sender_id,
                                       outgoing   |-> message.out,
                                       date       |-> message.date])]

\* async for message in self.client.iter_messages(...): every way the loop can
\* run over the stream, one for each outcome of the best-effort steps
RECURSIVE IterLoop(_, _, _, _, _)
IterLoop(stream, limit, start_date, mark_as_read, acc) ==
    IF stream = <<>> \/ acc.exc # "none" THEN {acc}
    ELSE LET message == Head(stream)
         IN  IF ~message.dated
             THEN IterLoop(Tail(stream), limit, start_date, mark_as_read, acc)
             ELSE IF TooOld(message, start_date) THEN {acc}
             ELSE IF Len(acc.results) >= limit THEN {acc}
             ELSE UNION {
                    IterLoop(Tail(stream), limit, start_date, mark_as_read,
                             ProcessMessage(message, acc, mo, po)) :
                    mo \in StepOutcomes(MarkReadReached(mark_as_read)),
                    po \in StepOutcomes(message.from_id # "None") }

-----------------------------------------------------------------------------
(* Tool calls.  A call of a Telegram method binds its arguments to the     *)
(* method's parameters first, as Python does: too many positional          *)
(* arguments, or a keyword that names no parameter, raise TypeError.       *)

Binds(sig, npos, keywords) ==
    /\ npos <= Len(sig.params)
    /\ keywords \subseteq {sig.params[i] : i \in (npos + 1)..Len(sig.params)}
    /\ sig.required \subseteq {sig.params[i] : i \in 1..Min(npos, Len(sig.params))}
                                \cup keywords

\* def send_message(self, entity, message)
SendMessageSig ==
    [params |-> <<"entity", "message">>, required |-> {"entity", "message"}]

\* def search_dialogs(self, query)
SearchDialogsSig == [params |-> <<"query">>, required |-> {"query"}]

\* def get_messages(self, entity, limit=20, start_date=..., end_date=...,
\*                  unread=False, mark_as_read=False)
GetMessagesSig ==
    [params |-> <<"entity", "limit", "start_date", "end_date", "unread", "mark_as_read">>,
     required |-> {"entity"}]

\* def message_from_link(self, link)
MessageFromLinkSig == [params |-> <<"link">>, required |-> {"link"}]

\* the record of one tool call: its arguments, how it ended (a value
\* "returned" or an exception "raised") and what it did on the way
NoCall ==
    [tool |-> "none", entity |-> <<>>, outcome |-> "none", exc |-> "none",
     value |-> "none", sends |-> 0,
     query |-> <<>>, dialogs |-> <<>>,
     limit |-> 0, start_date |-> 0, end_date |-> 0,
     start_omitted |-> FALSE, end_omitted |-> FALSE,
     unread |-> FALSE, mark_as_read |-> FALSE,
     dialog |-> NoDialog, effLimit |-> 0, iterStarted |-> FALSE,
     messages |-> <<>>, markAttempts |-> {}, markFailed |-> {}, peerFailed |-> {},
     readBefore |-> 0, readAfter |-> 0,
     link |-> <<>>, clientCalls |-> 0, caught |-> "none", lookup |-> "unreached"]

CallRaised(call, e) == [call EXCEPT !.outcome = "raised", !.exc = e]

\* the entity strings the tools are called with: a chat id, and a string
\* parse_entity raises on
ToolEntities == { <<"7">>, <<"-", "-", "7">> }

\* an optional date argument: omitted (the default applies) or given
Omitted == [given |-> FALSE, val |-> 0]

Given(d) == [given |-> TRUE, val |-> d]

\* how the lookups at the head of get_messages (get_peer_id, _get_dialog) end:
\* the dialog entry is found, there is none, or the lookup raises
Lookups == {"found", "none", "raise"}

\* Telegram.get_messages from "if unread" on, with the dialog resolved: the
\* calls it may end as
get_messages(call, dialog) ==
    IF call.unread /\ (~dialog.present \/ dialog.unread_messages_count = 0)
    THEN { [call EXCEPT !.outcome = "returned", !.dialog = dialog] }
    ELSE LET limit == EffectiveLimit(call.limit, call.unread, dialog)
             stream == iter_messages(chat, call.end_date)
         IN  { [call EXCEPT
                  !.outcome = IF acc.exc = "none" THEN "returned" ELSE "raised",
                  !.exc = acc.exc,
                  !.dialog = dialog,
                  !.effLimit = limit,
                  !.iterStarted = TRUE,
                  !.messages = IF acc.exc = "none" THEN acc.results ELSE <<>>,
                  !.markAttempts = acc.markAttempts,
                  !.markFailed = acc.markFailed,
                  !.peerFailed = acc.peerFailed,
                  !.readAfter = acc.readMax] :
               acc \in IterLoop(stream, limit, call.start_date, call.mark_as_read,
                                LoopStart(call.readBefore)) }

-----------------------------------------------------------------------------
(* search_dialogs *)

\* client.iter_dialogs(): the dialogs of the account
KnownDialogs ==
    << [id |-> 1, name |-> <<"A", "7">>, has_username |-> TRUE,  username |-> <<"a">>],
       [id |-> 2, name |-> <<"7", "a">>, has_username |-> FALSE, username |-> <<>>] >>

\* str.lower()
lower(s) == [i \in 1..Len(s) |-> IF s[i] = "A" THEN "a" ELSE s[i]]

\* sub in s
contains(sub, s) ==
    \E i \in 0..(Len(s) - Len(sub)) : SubSeq(s, i + 1, i + Len(sub)) = sub

\* the match of one dialog in Telegram.search_dialogs
DialogMatches(query, d) ==
    \/ query = <<>>
    \/ contains(lower(query), lower(d.name))
    \/ d.has_username /\ contains(lower(query), lower(d.username))

\* Telegram.search_dialogs(query)
search_dialogs(query) == SelectSeq(KnownDialogs, LAMBDA d : DialogMatches(query, d))

-----------------------------------------------------------------------------
(* types.Dialog.from_custom_dialog.  The peer of a dialog is an individual *)
(* account (types.User), a basic group (types.Chat) or a broadcast peer    *)
(* (types.Channel); custom.Dialog derives is_user and is_group from it.    *)

\* a custom.Dialog: its id, name and unread_count, and of its entity the class
\* (kind), the flags bot and megagroup, the username and the phone
CustomDialog(id, name, entity, unread_count) ==
    [id |-> id, name |-> name, kind |-> entity.kind, bot |-> entity.bot,
     megagroup |-> entity.megagroup,
     has_username |-> entity.has_username,
     username |-> IF entity.has_username THEN <<"a">> ELSE <<>>,
     has_phone |-> entity.has_phone,
     phone |-> IF entity.has_phone THEN <<"+", "7">> ELSE <<>>,
     unread_count |-> unread_count]

\* dialog.is_user
is_user(dialog) == dialog.kind = "User"

\* dialog.is_group: a basic group, or a broadcast peer flagged megagroup
is_group(dialog) ==
    dialog.kind = "Chat" \/ (dialog.kind = "Channel" /\ dialog.megagroup)

\* the if / elif / else that sets dialog_type
DialogTypeOf_NoGroupBranch(dialog) ==
    IF is_user(dialog) THEN (IF dialog.bot THEN "bot" ELSE "user")
    ELSE IF dialog.kind = "Chat" THEN "group"
    ELSE "channel"

DialogTypeOf(dialog) ==
    IF is_user(dialog) THEN (IF dialog.bot THEN "bot" ELSE "user")
    ELSE IF is_group(dialog) THEN "group"
    ELSE "channel"

\* Dialog.from_custom_dialog
from_custom_dialog(dialog) ==
    LET readsUsername == dialog.kind \in {"User", "Channel"}
        readsPhone == dialog.kind = "User"
    IN  [id |-> dialog.id,
         title |-> dialog.name,
         type |-> DialogTypeOf(dialog),
         has_username |-> readsUsername /\ dialog.has_username,
         username |-> IF readsUsername /\ dialog.has_username THEN dialog.username
                      ELSE <<>>,
         has_phone_number |-> readsPhone /\ dialog.has_phone,
         phone_number |-> IF readsPhone /\ dialog.has_phone THEN dialog.phone
                          ELSE <<>>,
         unread_messages_count |-> dialog.unread_count]

-----------------------------------------------------------------------------
(* Telegram.search_contacts *)

\* a query argument: None, or a string
NoQuery == [some |-> FALSE, str |-> <<>>]

Query(str) == [some |-> TRUE, str |-> str]

\* "not query": None and "" are both falsy
Falsy(query) == ~query.some \/ query.str = <<>>

\* user.<field> and lower_query in user.<field>.lower()
FieldMatches_CaseSensitive(lower_query, has, val) ==
    has /\ val # <<>> /\ contains(lower_query, val)

FieldMatches(lower_query, has, val) ==
    has /\ val # <<>> /\ contains(lower_query, lower(val))

\* the match of one user in Telegram.search_contacts
UserMatches(lower_query, user) ==
    \/ FieldMatches(lower_query, user.has_first_name, user.first_name)
    \/ FieldMatches(lower_query, user.has_last_name, user.last_name)
    \/ FieldMatches(lower_query, user.has_username, user.username)
    \/ FieldMatches(lower_query, user.has_phone, user.phone)

\* Contact(id=user.id, first_name=..., last_name=..., username=..., phone=...)
ContactOf(user) ==
    [id |-> user.id,
     has_first_name |-> user.has_first_name, first_name |-> user.first_name,
     has_last_name |-> user.has_last_name, last_name |-> user.last_name,
     has_username |-> user.has_username, username |-> user.username,
     has_phone |-> user.has_phone, phone |-> user.phone]

\* [Contact(...) for user in users]
ContactsOf(users) == [i \in 1..Len(users) |-> ContactOf(users[i])]

\* results.append(Dialog.from_custom_dialog(dialog)) for each dialog kept
DialogsOf(dialogs) == [i \in 1..Len(dialogs) |-> from_custom_dialog(dialogs[i])]

\* what a search hands back: the list, or the exception that left it
Found(results) == [exc |-> "none", results |-> results]

SearchRaised(exc) == [exc |-> exc, results |-> <<>>]

\* Telegram.search_contacts(query), users being contacts.users
search_contacts(query, users) ==
    LET contact_users == SelectSeq(users, LAMBDA user : user.in_contacts)
    IN  IF Falsy(query) THEN Found(ContactsOf(contact_users))
        ELSE Found(ContactsOf(
                       SelectSeq(contact_users,
                                 LAMBDA user : UserMatches(lower(query.str), user))))

\* Telegram.search_dialogs(query), dialogs being what iter_dialogs() collects:
\* query.lower() is evaluated for each dialog, before "if query"
search_dialogs_in(query, dialogs) ==
    IF dialogs # <<>> /\ ~query.some THEN SearchRaised("AttributeError")
    ELSE Found(DialogsOf(
                   SelectSeq(dialogs, LAMBDA d : DialogMatches(query.str, d))))

-----------------------------------------------------------------------------
(* Telegram.message_from_link *)

\* the except clauses that close the try of message_from_link: ValueError,
\* TypeError, and Exception for everything else
Handled_OnlyValueAndTypeError(exc) == exc \in {"ValueError", "TypeError"}

Handled(exc) == exc \in {"ValueError", "TypeError", "RPCError", "ValidationError"}

\* how client.get_messages(entity, ids=message_id) may end: it raises (the
\* entity is unknown: ValueError; the request fails: RPCError), it finds no
\* message, or it hands back the message
FetchOutcomes == {"ValueError", "RPCError", "none", "message"}

\* the try block left by exception exc: a handler returns None, or the
\* exception goes on to the caller
LeaveTry(call, exc) ==
    IF Handled(exc)
    THEN [call EXCEPT !.outcome = "returned", !.value = "None", !.caught = exc]
    ELSE CallRaised(call, exc)

\* the try block from "sender_id" on, for the message fetched
BuildMessage(call, message, peerOutcome, mediaOutcome) ==
    LET resolved == [call EXCEPT
                       !.peerFailed = IF peerOutcome = "raise" THEN {message.id} ELSE {},
                       !.clientCalls = IF peerOutcome = "skipped" THEN @ ELSE @ + 1]
        sender_id == IF peerOutcome = "ok" THEN message.from_id ELSE "None"
    IN  IF mediaOutcome = "raise" THEN LeaveTry(resolved, "ValidationError")
        ELSE IF ~message.dated
        THEN [resolved EXCEPT !.outcome = "returned", !.value = "None"]
        ELSE [resolved EXCEPT
                !.outcome = "returned", !.value = "Message",
                !.messages = << [message_id |-> message.id,
                                 sender_id  |-> sender_id,
                                 outgoing   |-> message.out,
                                 date       |-> message.date] >>]

\* Telegram.message_from_link(link): the calls it may end as
message_from_link(call, link) ==
    LET parsed_result == parse_telegram_url(link)
    IN  IF parsed_result = UrlNone
        THEN { [call EXCEPT !.outcome = "returned", !.value = "None"] }
        ELSE LET fetching == [call EXCEPT !.clientCalls = 1]
             IN  UNION {
                   IF fetch = "message"
                   THEN UNION {
                          { BuildMessage(fetching,
                                         NewMessage(parsed_result.message_id, kind),
                                         po, mo) :
                            po \in StepOutcomes(kind.from_id # "None"),
                            mo \in {"ok", "raise"} } :
                          kind \in MsgKinds }
                   ELSE IF fetch = "none"
                   THEN { [fetching EXCEPT !.outcome = "returned", !.value = "None"] }
                   ELSE { LeaveTry(fetching, fetch) } :
                   fetch \in FetchOutcomes }

-----------------------------------------------------------------------------
(* The tools of server.py.  Each is one step: the handler from its call to  *)
(* its return or to the exception that leaves it.                          *)

Limits == 0..MaxLimit

ExplicitDates == {DateOf(k) : k \in 1..(MaxChat + 1)}

DateArgs == {Omitted} \cup {Given(d) : d \in ExplicitDates}

Queries == { <<>>, <<"a">>, <<"A">>, <<"7">>, <<"+">> }

\* the latest tool call has been answered
Idle == last = NoCall

\* tools are served while app_lifespan is suspended at its yield
ServerReady == lsPc = "ready" /\ Idle

\* the result of the tool call, or its exception, goes back to the caller
Respond ==
    /\ ~Idle
    /\ last' = NoCall
    /\ UNCHANGED <<fnVars, taskVars, fileVars, envVars, lifespanVars>>

\* server.send_message
SendMessageTool ==
    /\ ServerReady
    /\ \E entity \in ToolEntities :
         LET _entity == parse_entity(entity)
             call == [NoCall EXCEPT !.tool = "send_message", !.entity = entity]
         IN  IF _entity.tag = "raise"
             THEN last' = CallRaised(call, _entity.exc)
             ELSE IF ~Binds(SendMessageSig, 2, {"file_path", "reply_to"})
             THEN last' = CallRaised(call, "TypeError")
             ELSE \E sent \in BOOLEAN :
                    last' = IF sent
                            THEN [call EXCEPT !.outcome = "returned", !.sends = 1,
                                              !.value = "Message sent to"]
                            ELSE [CallRaised(call, "RPCError") EXCEPT !.sends = 1]
    /\ UNCHANGED <<fnVars, taskVars, fileVars, envVars, lifespanVars>>

\* server.search_dialogs
SearchDialogsTool ==
    /\ ServerReady
    /\ \E query \in Queries, limit \in 1..MaxLimit :
         LET call == [NoCall EXCEPT !.tool = "search_dialogs", !.query = query,
                                    !.limit = limit]
         IN  IF ~Binds(SearchDialogsSig, 2, {})
             THEN last' = CallRaised(call, "TypeError")
             ELSE last' = [call EXCEPT !.outcome = "returned",
                                       !.dialogs = search_dialogs(query)]
    /\ UNCHANGED <<fnVars, taskVars, fileVars, envVars, lifespanVars>>

\* server.get_messages
GetMessagesTool ==
    /\ ServerReady
    /\ \E entity \in ToolEntities, lookup \in Lookups :
         LET _entity == parse_entity(entity)
             call == [NoCall EXCEPT !.tool = "get_messages", !.entity = entity,
                                    !.readBefore = readMax, !.readAfter = readMax]
         IN  IF _entity.tag = "raise"
             THEN last' = CallRaised(call, _entity.exc) /\ UNCHANGED readMax
             ELSE IF ~Binds(GetMessagesSig, 6, {})
             THEN last' = CallRaised(call, "TypeError") /\ UNCHANGED readMax
             ELSE IF lookup = "raise"
             THEN /\ last' = [CallRaised(call, "ValueError") EXCEPT !.lookup = lookup]
                  /\ UNCHANGED readMax
             ELSE \E limit \in Limits, start \in DateArgs, end \in DateArgs,
                     unread \in BOOLEAN, mark_as_read \in BOOLEAN :
                    LET args == [call EXCEPT
                                   !.lookup = lookup,
                                   !.limit = limit,
                                   !.start_omitted = ~start.given,
                                   !.end_omitted = ~end.given,
                                   !.start_date = IF start.given THEN start.val
                                                  ELSE DefaultStartDate,
                                   !.end_date = IF end.given THEN end.val
                                                ELSE DefaultEndDate,
                                   !.unread = unread,
                                   !.mark_as_read = mark_as_read]
                        dialog == IF lookup = "found" THEN DialogOf(chat, readMax)
                                  ELSE NoDialog
                    IN  \E done \in get_messages(args, dialog) :
                          /\ last' = done
                          /\ readMax' = done.readAfter
    /\ UNCHANGED <<fnVars, taskVars, fileVars, chat, lifespanVars>>

\* the links the message_from_link tool is called with: a private-channel
\* link, one with text after the message id, a public-username link
ToolLinks ==
    { <<"t", ".", "m", "e", "/", "c", "/", "7", "/", "7">>,
      <<"t", ".", "m", "e", "/", "c", "/", "7", "/", "7", "a">>,
      <<"t", ".", "m", "e", "/", "a", "/", "7">> }

\* server.message_from_link
MessageFromLinkTool ==
    /\ ServerReady
    /\ \E link \in ToolLinks :
         LET call == [NoCall EXCEPT !.tool = "message_from_link", !.link = link]
         IN  IF ~Binds(MessageFromLinkSig, 1, {})
             THEN last' = CallRaised(call, "TypeError")
             ELSE \E done \in message_from_link(call, link) : last' = done
    /\ UNCHANGED <<fnVars, taskVars, fileVars, envVars, lifespanVars>>

-----------------------------------------------------------------------------
(* The Telegram side *)

\* a message is sent or received in the chat
Arrive ==
    /\ Idle
    /\ Len(chat) < MaxChat
    /\ \E kind \in MsgKinds :
         chat' = Append(chat, NewMessage(Len(chat) + 1, kind))
    /\ last' = NoCall
    /\ UNCHANGED <<fnVars, taskVars, fileVars, readMax, lifespanVars>>

\* the account reads the chat on another device
ReadElsewhere ==
    /\ Idle
    /\ \E k \in (readMax + 1)..Len(chat) : readMax' = k
    /\ last' = NoCall
    /\ UNCHANGED <<fnVars, taskVars, fileVars, chat, lifespanVars>>

-----------------------------------------------------------------------------
(* app_lifespan and the shared client *)

\* Telegram.create_client(api_id, api_hash) on an instance whose _client is
\* client, built clients having been constructed so far and configured telling
\* whether the environment holds the credentials: the stored handle, the
\* exception raised and the clients constructed; the k-th client constructed
\* is the handle k
create_client_NoReuse(client, api_id, api_hash, configured, built) ==
    IF (~api_id \/ ~api_hash) /\ ~configured
    THEN [client |-> client, exc |-> "ValidationError", built |-> built]
    ELSE [client |-> built + 1, exc |-> "none", built |-> built + 1]

create_client(client, api_id, api_hash, configured, built) ==
    IF client # 0 THEN [client |-> client, exc |-> "none", built |-> built]
    ELSE IF (~api_id \/ ~api_hash) /\ ~configured
    THEN [client |-> 0, exc |-> "ValidationError", built |-> built]
    ELSE [client |-> built + 1, exc |-> "none", built |-> built + 1]

\* the property Telegram.client
client(stored) ==
    IF stored = 0 THEN [client |-> 0, exc |-> "RuntimeError"]
    ELSE [client |-> stored, exc |-> "none"]

\* tg.create_client()
AppLifespanCreateClient ==
    /\ Idle
    /\ lsPc = "start"
    /\ LET made == create_client(tgClient, FALSE, FALSE, credentials, clientsBuilt)
       IN  /\ tgClient' = made.client
           /\ clientsBuilt' = made.built
           /\ lsError' = made.exc
           /\ lsPc' = IF made.exc = "none" THEN "created" ELSE "finally"
    /\ last' = NoCall
    /\ UNCHANGED <<fnVars, taskVars, fileVars, envVars, importTime, credentials,
                   connectOk, connectCalls, disconnectCalls>>

\* await tg.client.connect()
AppLifespanConnect ==
    /\ Idle
    /\ lsPc = "created"
    /\ connectCalls' = connectCalls + 1
    /\ \E ok \in BOOLEAN :
         /\ connectOk' = ok
         /\ lsPc' = IF ok THEN "ready" ELSE "finally"
         /\ lsError' = IF ok THEN "none" ELSE "ConnectionError"
    /\ last' = NoCall
    /\ UNCHANGED <<fnVars, taskVars, fileVars, envVars, importTime, credentials,
                   tgClient, clientsBuilt, disconnectCalls>>

\* the yield is left: the server shuts down, or an error is thrown in
AppLifespanLeave ==
    /\ Idle
    /\ lsPc = "ready"
    /\ \E e \in {"none", "ServerError"} : lsError' = e
    /\ lsPc' = "finally"
    /\ last' = NoCall
    /\ UNCHANGED <<fnVars, taskVars, fileVars, envVars, importTime, credentials,
                   tgClient, clientsBuilt, connectOk, connectCalls, disconnectCalls>>

\* a lifespan that disconnects after the yield, without the finally
AppLifespanFinally_NoFinally ==
    /\ Idle
    /\ lsPc = "finally"
    /\ lsPc' = "exited"
    /\ IF lsError = "none"
       THEN disconnectCalls' = disconnectCalls + 1
       ELSE disconnectCalls' = disconnectCalls
    /\ last' = NoCall
    /\ UNCHANGED <<fnVars, taskVars, fileVars, envVars, importTime, credentials,
                   tgClient, clientsBuilt, connectOk, connectCalls, lsError>>

\* finally: await tg.client.disconnect()
AppLifespanFinally ==
    /\ Idle
    /\ lsPc = "finally"
    /\ lsPc' = "exited"
    /\ IF tgClient = 0
       THEN /\ lsError' = "RuntimeError"
            /\ disconnectCalls' = disconnectCalls
       ELSE /\ disconnectCalls' = disconnectCalls + 1
            /\ \E ok \in BOOLEAN :
                 lsError' = IF ok THEN lsError ELSE "ConnectionError"
    /\ last' = NoCall
    /\ UNCHANGED <<fnVars, taskVars, fileVars, envVars, importTime, credentials,
                   tgClient, clientsBuilt, connectOk, connectCalls>>

-----------------------------------------------------------------------------
(* The tool handlers as tasks of the event loop.  A handler is a coroutine: *)
(* at each await of a client call it is suspended until the call           *)
(* completes, and meanwhile the loop runs the handlers of other requests.  *)
(* Nothing in server.py or telegram.py holds a lock around the client.     *)

Tasks == 1..MaxTasks

\* the client calls that change the account: client.send_message,
\* draft.set_message, message.mark_read
AccountAffecting == {"send_message", "set_message", "mark_read"}

NoTask == [tool |-> "none", script |-> <<>>, pc |-> 1, awaiting |-> FALSE,
           status |-> "idle", exc |-> "none"]

\* one client call of a handler; try: it stands inside a try/except
ClientCall(op, try) == [op |-> op, try |-> try]

\* Telegram.send_message: await self.client.send_message(entity, message)
SendMessageScript == << ClientCall("send_message", FALSE) >>

\* Telegram.set_draft: get_peer_id, get_drafts, draft.set_message, each awaited
SetDraftScript ==
    << ClientCall("get_peer_id", FALSE),
       ClientCall("get_drafts", FALSE),
       ClientCall("set_message", FALSE) >>

\* the body of the loop of get_messages for one returned message
RECURSIVE PerMessageCalls(_, _)
PerMessageCalls(n, mark_as_read) ==
    IF n = 0 THEN <<>>
    ELSE (IF mark_as_read THEN << ClientCall("mark_read", TRUE) >> ELSE <<>>)
         \o << ClientCall("get_peer_id", TRUE) >>
         \o PerMessageCalls(n - 1, mark_as_read)

\* Telegram.get_messages returning n messages: get_peer_id, _get_dialog
\* (get_input_entity, GetPeerDialogsRequest), iter_messages, then the loop
GetMessagesScript(n, mark_as_read) ==
    << ClientCall("get_peer_id", FALSE),
       ClientCall("get_input_entity", FALSE),
       ClientCall("GetPeerDialogsRequest", FALSE),
       ClientCall("iter_messages", FALSE) >>
    \o PerMessageCalls(n, mark_as_read)

\* "await": the handler goes on only when the call has completed
Awaited_MarkReadNotAwaited(op) == op # "mark_read"

Awaited(op) == TRUE

CallsOf(t) == {c \in inflight : c.task = t}

TaskReady(t) == lsPc = "ready" /\ tasks[t].status = "idle"

\* server.send_message is called
StartSendMessage(t) ==
    /\ TaskReady(t)
    /\ tasks' = [tasks EXCEPT ![t] =
                   IF Binds(SendMessageSig, 2, {"file_path", "reply_to"})
                   THEN [NoTask EXCEPT !.tool = "send_message",
                                       !.script = SendMessageScript,
                                       !.status = "running"]
                   ELSE [NoTask EXCEPT !.tool = "send_message",
                                       !.status = "raised", !.exc = "TypeError"]]
    /\ UNCHANGED <<fnVars, serverVars, inflight, fileVars>>

\* server.set_draft is called
StartSetDraft(t) ==
    /\ TaskReady(t)
    /\ tasks' = [tasks EXCEPT ![t] =
                   [NoTask EXCEPT !.tool = "set_draft", !.script = SetDraftScript,
                                  !.status = "running"]]
    /\ UNCHANGED <<fnVars, serverVars, inflight, fileVars>>

\* server.get_messages is called
StartGetMessages(t) ==
    /\ TaskReady(t)
    /\ \E n \in 0..MaxLimit, mark_as_read \in BOOLEAN :
         tasks' = [tasks EXCEPT ![t] =
                     [NoTask EXCEPT !.tool = "get_messages",
                                    !.script = GetMessagesScript(n, mark_as_read),
                                    !.status = "running"]]
    /\ UNCHANGED <<fnVars, serverVars, inflight, fileVars>>

\* the handler reaches its next client call and issues it
IssueCall(t) ==
    /\ tasks[t].status = "running" /\ ~tasks[t].awaiting
    /\ tasks[t].pc <= Len(tasks[t].script)
    /\ LET op == tasks[t].script[tasks[t].pc].op
       IN  /\ inflight' = inflight \cup {[task |-> t, op |-> op, at |-> tasks[t].pc]}
           /\ tasks' = [tasks EXCEPT ![t] =
                          IF Awaited(op) THEN [@ EXCEPT !.awaiting = TRUE]
                          ELSE [@ EXCEPT !.pc = @ + 1]]
    /\ UNCHANGED <<fnVars, serverVars, fileVars>>

\* a client call completes, with its result or with an exception
CompleteCall(t) ==
    /\ \E c \in CallsOf(t), ok \in BOOLEAN :
         /\ inflight' = inflight \ {c}
         /\ tasks' = [tasks EXCEPT ![t] =
                        IF ~(@.awaiting /\ @.pc = c.at) THEN @
                        ELSE IF ok \/ (@.script[c.at].try /\ Swallowed(c.op))
                        THEN [@ EXCEPT !.awaiting = FALSE, !.pc = @ + 1]
                        ELSE [@ EXCEPT !.awaiting = FALSE, !.status = "raised",
                                       !.exc = "RPCError"]]
    /\ UNCHANGED <<fnVars, serverVars, fileVars>>

\* the handler returns
TaskReturn(t) ==
    /\ tasks[t].status = "running" /\ ~tasks[t].awaiting
    /\ tasks[t].pc > Len(tasks[t].script)
    /\ tasks' = [tasks EXCEPT ![t].status = "returned"]
    /\ UNCHANGED <<fnVars, serverVars, inflight, fileVars>>

\* the result of the handler, or its exception, goes back to the caller
TaskRespond(t) ==
    /\ tasks[t].status \in {"returned", "raised"}
    /\ CallsOf(t) = {}
    /\ tasks' = [tasks EXCEPT ![t] = NoTask]
    /\ UNCHANGED <<fnVars, serverVars, inflight, fileVars>>

-----------------------------------------------------------------------------
(* The server *)

ServerInit ==
    /\ chat = <<>>
    /\ readMax = 0
    /\ importTime = 1
    /\ credentials \in BOOLEAN
    /\ tgClient = 0
    /\ clientsBuilt = 0
    /\ Idle
    /\ lsPc = "start"
    /\ lsError = "none"
    /\ connectOk = FALSE
    /\ connectCalls = 0
    /\ disconnectCalls = 0
    /\ last = NoCall
    /\ tasks = [t \in Tasks |-> NoTask]
    /\ inflight = {}
    /\ uuids = <<>>
    /\ filenames = <<>>

Init ==
    /\ fnArg = <<>>
    /\ fnOut = NoOut
    /\ ServerInit

Next ==
    \/ AppLifespanCreateClient
    \/ AppLifespanConnect
    \/ AppLifespanLeave
    \/ AppLifespanFinally
    \/ SendMessageTool
    \/ SearchDialogsTool
    \/ GetMessagesTool
    \/ MessageFromLinkTool
    \/ Respond
    \/ Arrive
    \/ ReadElsewhere

Spec == Init /\ [][Next]_vars

-----------------------------------------------------------------------------
(* The server with its handlers interleaved by the event loop *)

NextAsync ==
    \/ AppLifespanCreateClient
    \/ AppLifespanConnect
    \/ \E t \in Tasks : StartSendMessage(t)
    \/ \E t \in Tasks : StartSetDraft(t)
    \/ \E t \in Tasks : StartGetMessages(t)
    \/ \E t \in Tasks : IssueCall(t)
    \/ \E t \in Tasks : CompleteCall(t)
    \/ \E t \in Tasks : TaskReturn(t)
    \/ \E t \in Tasks : TaskRespond(t)

SpecAsync == Init /\ [][NextAsync]_vars

-----------------------------------------------------------------------------
(* The resolver applied to every bounded input string *)

InitEntity ==
    /\ fnArg \in StringsUpTo(MaxLen)
    /\ fnOut = NoOut
    /\ ServerInit

ParseEntityCall ==
    /\ fnOut = NoOut
    /\ fnOut' = parse_entity(fnArg)
    /\ UNCHANGED <<fnArg, serverVars, taskVars, fileVars>>

NextEntity == ParseEntityCall

SpecEntity == InitEntity /\ [][NextEntity]_vars

-----------------------------------------------------------------------------
(* The link parser applied to every link of a bounded family: a scheme, a  *)
(* host, and a path that is /c/<segment>/<segment>, a public-username      *)
(* link or an invite link                                                  *)

SegChars == DecimalChars \cup {"a", "/"}

Segments(n) == UNION {[1..k -> SegChars] : k \in 0..n}

LinkSchemes ==
    { <<>>,
      <<"h", "t", "t", "p", ":", "/", "/">>,
      <<"h", "t", "t", "p", "s", ":", "/", "/">>,
      <<"f", "t", "p", ":", "/", "/">> }

LinkHosts ==
    { <<"t", ".", "m", "e">>,
      <<"t", "e", "l", "e", "g", "r", "a", "m", ".", "m", "e">>,
      <<"t", "x", "m", "e">> }

\* t.me/a/7 (a public username), t.me/+a and t.me/joinchat/a (invitations)
OtherPaths ==
    { <<"/", "a", "/", "7">>,
      <<"/", "+", "a">>,
      <<"/", "j", "o", "i", "n", "c", "h", "a", "t", "/", "a">> }

ChannelPaths ==
    { <<"/", "c", "/">> \o s1 \o <<"/">> \o s2 :
        s1 \in Segments(MaxSeg), s2 \in Segments(MaxSeg) }

Links ==
    { scheme \o host \o path :
        scheme \in LinkSchemes, host \in LinkHosts,
        path \in ChannelPaths \cup OtherPaths }

InitUrl ==
    /\ fnArg \in Links
    /\ fnOut = NoOut
    /\ ServerInit

ParseTelegramUrlCall ==
    /\ fnOut = NoOut
    /\ fnOut' = parse_telegram_url(fnArg)
    /\ UNCHANGED <<fnArg, serverVars, taskVars, fileVars>>

NextUrl == ParseTelegramUrlCall

SpecUrl == InitUrl /\ [][NextUrl]_vars

-----------------------------------------------------------------------------
(* The dialog conversion applied to every peer of a bounded family *)

\* the entities a dialog may have: a User with its bot flag, username and
\* phone; a Chat; a Channel with its megagroup flag and username
Entities ==
    { [kind |-> "User", bot |-> b, megagroup |-> FALSE,
       has_username |-> hu, has_phone |-> hp] :
        b \in BOOLEAN, hu \in BOOLEAN, hp \in BOOLEAN }
    \cup
    { [kind |-> "Chat", bot |-> FALSE, megagroup |-> FALSE,
       has_username |-> FALSE, has_phone |-> FALSE] }
    \cup
    { [kind |-> "Channel", bot |-> FALSE, megagroup |-> m,
       has_username |-> hu, has_phone |-> FALSE] :
        m \in BOOLEAN, hu \in BOOLEAN }

DialogNames == { <<>>, <<"A", "7">>, <<"7", "a">> }

CustomDialogs ==
    { CustomDialog(7, name, e, unread_count) :
        name \in DialogNames, e \in Entities, unread_count \in 0..MaxChat }

InitDialog ==
    /\ fnArg \in CustomDialogs
    /\ fnOut = NoOut
    /\ ServerInit

FromCustomDialogCall ==
    /\ fnOut = NoOut
    /\ fnOut' = from_custom_dialog(fnArg)
    /\ UNCHANGED <<fnArg, serverVars, taskVars, fileVars>>

NextDialog == FromCustomDialogCall

SpecDialog == InitDialog /\ [][NextDialog]_vars

-----------------------------------------------------------------------------
(* The two searches applied to bounded queries and candidate lists *)

\* None, "", and strings that match in either case, in part, or nowhere
SearchQueries ==
    { NoQuery, Query(<<>>), Query(<<"a">>), Query(<<"A">>), Query(<<"7">>),
      Query(<<"a", "7">>), Query(<<"+">>) }

\* a field of a user: absent, or one of two strings
FieldValues ==
    { [has |-> FALSE, val |-> <<>>],
      [has |-> TRUE, val |-> <<"A", "7">>],
      [has |-> TRUE, val |-> <<"7">>] }

User(id, in_contacts, first_name, last_name, username, phone) ==
    [id |-> id, in_contacts |-> in_contacts,
     has_first_name |-> first_name.has, first_name |-> first_name.val,
     has_last_name |-> last_name.has, last_name |-> last_name.val,
     has_username |-> username.has, username |-> username.val,
     has_phone |-> phone.has, phone |-> phone.val]

\* contacts.users: a contact with any fields, a user who is no contact, and a
\* contact with a first name only
UserLists ==
    { << User(1, TRUE, f, l, u, p),
         User(2, FALSE, [has |-> TRUE, val |-> <<"a">>], f, u, p),
         User(3, TRUE, [has |-> TRUE, val |-> <<"a">>],
              [has |-> FALSE, val |-> <<>>], [has |-> FALSE, val |-> <<>>],
              [has |-> FALSE, val |-> <<>>]) >> :
        f \in FieldValues, l \in FieldValues, u \in FieldValues, p \in FieldValues }

\* the dialogs of the account: none, one, or one followed by a basic group
DialogLists ==
    { <<>> }
    \cup { <<d>> : d \in {x \in CustomDialogs : x.unread_count = 0} }
    \cup { <<d, CustomDialog(8, <<"a">>,
                             [kind |-> "Chat", bot |-> FALSE, megagroup |-> FALSE,
                              has_username |-> FALSE, has_phone |-> FALSE], 0)>> :
           d \in {x \in CustomDialogs : x.unread_count = 0} }

SearchInputs ==
    { [fn |-> "search_contacts", query |-> q, candidates |-> users] :
        q \in SearchQueries, users \in UserLists }
    \cup
    { [fn |-> "search_dialogs", query |-> q, candidates |-> dialogs] :
        q \in SearchQueries, dialogs \in DialogLists }

InitSearch ==
    /\ fnArg \in SearchInputs
    /\ fnOut = NoOut
    /\ ServerInit

SearchContactsCall ==
    /\ fnOut = NoOut
    /\ fnArg.fn = "search_contacts"
    /\ fnOut' = search_contacts(fnArg.query, fnArg.candidates)
    /\ UNCHANGED <<fnArg, serverVars, taskVars, fileVars>>

SearchDialogsCall ==
    /\ fnOut = NoOut
    /\ fnArg.fn = "search_dialogs"
    /\ fnOut' = search_dialogs_in(fnArg.query, fnArg.candidates)
    /\ UNCHANGED <<fnArg, serverVars, taskVars, fileVars>>

NextSearch ==
    \/ SearchContactsCall
    \/ SearchDialogsCall

SpecSearch == InitSearch /\ [][NextSearch]_vars

-----------------------------------------------------------------------------
(* get_unique_filename called again and again, on any message each time *)

\* message.file.name when it is a str: with and without a suffix, with a dot
\* in front or at the end, a lone dot, empty, and a name shaped like the
\* fallback name
FileNames ==
    { <<"a">>, <<"a", ".", "a">>, <<".", "a">>, <<"a", ".">>, <<".">>, <<>>,
      <<"d", "o", "w", "n", "l", "o", "a", "d", "_", "5">> }

\* message.file.mime_type when it is a str
MimeTypes == { <<"a", "/", "a">>, <<"a">>, <<"a", "/">>, <<"a", "/", "a", "/", "a">> }

\* the messages: without a file; with a file that has a name; with a file
\* that has no name and has a mime type or none
MediaMessages ==
    { [id |-> id, has_file |-> FALSE, has_name |-> FALSE, name |-> <<>>,
       has_mime |-> FALSE, mime_type |-> <<>>] : id \in {5, 7} }
    \cup
    { [id |-> id, has_file |-> TRUE, has_name |-> TRUE, name |-> name,
       has_mime |-> TRUE, mime_type |-> <<"a", "/", "a">>] :
        id \in {5, 7}, name \in FileNames }
    \cup
    { [id |-> id, has_file |-> TRUE, has_name |-> FALSE, name |-> <<>>,
       has_mime |-> TRUE, mime_type |-> mime_type] :
        id \in {5, 7}, mime_type \in MimeTypes }
    \cup
    { [id |-> id, has_file |-> TRUE, has_name |-> FALSE, name |-> <<>>,
       has_mime |-> FALSE, mime_type |-> <<>>] : id \in {5, 7} }

GetUniqueFilenameCall ==
    /\ Len(filenames) < MaxCalls
    /\ \E message \in MediaMessages :
         LET unique_prefix == uuid4(uuids)
         IN  /\ uuids' = Append(uuids, unique_prefix)
             /\ filenames' =
                  Append(filenames,
                         [message |-> message,
                          name |-> get_unique_filename(message, unique_prefix)])
    /\ UNCHANGED <<fnVars, serverVars, taskVars>>

NextFilename == GetUniqueFilenameCall

SpecFilename == Init /\ [][NextFilename]_vars

-----------------------------------------------------------------------------
(* One Telegram instance on which create_client is called and client is    *)
(* read again and again, while the environment gains or loses the          *)
(* credentials.  fnArg and fnOut hold the calls made and their results.    *)

InitClient ==
    /\ fnArg = <<>>
    /\ fnOut = <<>>
    /\ ServerInit

\* tg.create_client(), tg.create_client(api_id, api_hash), or with one of both
CreateClientCall ==
    /\ Len(fnArg) < MaxCalls
    /\ \E api_id \in BOOLEAN, api_hash \in BOOLEAN :
         LET made == create_client(tgClient, api_id, api_hash, credentials,
                                   clientsBuilt)
         IN  /\ tgClient' = made.client
             /\ clientsBuilt' = made.built
             /\ fnArg' = Append(fnArg, [fn |-> "create_client", api_id |-> api_id,
                                        api_hash |-> api_hash])
             /\ fnOut' = Append(fnOut, [client |-> IF made.exc = "none"
                                                   THEN made.client ELSE 0,
                                        exc |-> made.exc])
    /\ UNCHANGED <<taskVars, fileVars, envVars, importTime, credentials, lsPc,
                   lsError, connectOk, connectCalls, disconnectCalls, last>>

\* tg.client
ReadClient ==
    /\ Len(fnArg) < MaxCalls
    /\ fnArg' = Append(fnArg, [fn |-> "client", api_id |-> FALSE, api_hash |-> FALSE])
    /\ fnOut' = Append(fnOut, client(tgClient))
    /\ UNCHANGED <<serverVars, taskVars, fileVars>>

\* API_ID and API_HASH are set in the environment, or unset
SetEnvironment ==
    /\ credentials' = ~credentials
    /\ UNCHANGED <<fnVars, taskVars, fileVars, envVars, importTime, tgClient,
                   clientsBuilt, lsPc, lsError, connectOk, connectCalls,
                   disconnectCalls, last>>

NextClient ==
    \/ CreateClientCall
    \/ ReadClient
    \/ SetEnvironment

SpecClient == InitClient /\ [][NextClient]_vars

-----------------------------------------------------------------------------
(* Claims about parse_entity *)

\* a string of one or more decimal digits, optionally preceded by one "-"
IsSignedDecimal(s) ==
    \/ IsDecimal(s)
    \/ Len(s) > 1 /\ s[1] = "-" /\ IsDecimal(Tail(s))

SignedValue(s) ==
    IF s[1] = "-" THEN 0 - DecimalValue(Tail(s)) ELSE DecimalValue(s)

\* C1: parse_entity is total: for every input string it returns a value and
\* never raises.
C1_ParseEntityNeverRaises ==
    fnOut # NoOut => fnOut.tag \in {"int", "str"}

\* C2: a string of decimal digits with at most one leading "-" resolves to its
\* signed integer value, and every other string is returned unchanged.
C2_ParseEntityContract ==
    fnOut # NoOut =>
        IF IsSignedDecimal(fnArg)
        THEN fnOut = IntVal(SignedValue(fnArg))
        ELSE fnOut = StrVal(fnArg)

-----------------------------------------------------------------------------
(* Claims about get_messages.  What a call should hand back is stated here *)
(* from the stream alone, without the loop.                                *)

GetMessagesReturned == last.tool = "get_messages" /\ last.outcome = "returned"

\* the stream the client delivers for the call: newest first, from end_date
StreamOfCall == iter_messages(chat, last.end_date)

\* where the first message strictly older than start_date stands in the
\* stream (past its end when there is none)
FirstTooOld(stream, start_date) ==
    LET old == {i \in 1..Len(stream) : stream[i].dated /\ stream[i].date < start_date}
    IN  IF old = {} THEN Len(stream) + 1
        ELSE CHOOSE i \in old : \A j \in old : i <= j

\* the dated messages that precede the first too-old message
DatedBefore(stream, start_date) ==
    SelectSeq(SubSeq(stream, 1, FirstTooOld(stream, start_date) - 1),
              LAMBDA m : m.dated)

\* the first min(limit, k) of them
ExpectedWindow(stream, start_date, limit) ==
    LET dated == DatedBefore(stream, start_date)
    IN  SubSeq(dated, 1, Min(limit, Len(dated)))

SameMessages(results, expected) ==
    /\ Len(results) = Len(expected)
    /\ \A i \in 1..Len(results) :
         /\ results[i].message_id = expected[i].id
         /\ results[i].date = expected[i].date
         /\ results[i].outgoing = expected[i].out

ReturnedIds == {last.messages[i].message_id : i \in 1..Len(last.messages)}

\* C3: with unread=false and limit >= 0, get_messages returns, in stream order,
\* exactly the first min(limit, k) dated messages of the stream, k counting the
\* dated messages before the first one strictly older than start_date; undated
\* messages are skipped; so nothing returned is older than start_date and the
\* result never has more than limit messages.
C3_DateWindow ==
    (GetMessagesReturned /\ ~last.unread /\ last.limit >= 0) =>
        /\ SameMessages(last.messages,
                        ExpectedWindow(StreamOfCall, last.start_date, last.limit))
        /\ \A i \in 1..Len(last.messages) : last.messages[i].date >= last.start_date
        /\ Len(last.messages) <= last.limit

\* a call that skipped an undated message, returned a message dated exactly
\* start_date and stopped at an older one before reaching its limit
C3_Witness ==
    /\ GetMessagesReturned /\ ~last.unread
    /\ Len(last.messages) = 1 /\ last.limit = 2
    /\ last.messages[1].date = last.start_date
    /\ FirstTooOld(StreamOfCall, last.start_date) <= Len(StreamOfCall)
    /\ \E i \in 1..Len(StreamOfCall) : \E j \in (i + 1)..Len(StreamOfCall) :
         /\ ~StreamOfCall[i].dated
         /\ StreamOfCall[j].id = last.messages[1].message_id

\* C4: with unread=true, a dialog that resolves to None or has no unread
\* message gives an empty result without the iteration being started; otherwise
\* the limit of the iteration is min(limit, unread_messages_count) and at most
\* that many messages are returned.
C4_UnreadCap ==
    (GetMessagesReturned /\ last.unread) =>
        IF ~last.dialog.present \/ last.dialog.unread_messages_count = 0
        THEN last.messages = <<>> /\ ~last.iterStarted
        ELSE /\ last.iterStarted
             /\ last.effLimit = Min(last.limit, last.dialog.unread_messages_count)
             /\ Len(last.messages)
                  <= Min(last.limit, last.dialog.unread_messages_count)

\* a call the unread count caps: one unread message, a limit of two and two
\* messages in the window
C4_Witness ==
    /\ GetMessagesReturned /\ last.unread
    /\ last.dialog.present /\ last.dialog.unread_messages_count = 1
    /\ last.limit = 2
    /\ Len(last.messages) = 1
    /\ Len(DatedBefore(StreamOfCall, last.start_date)) >= 2

\* C5: with unread=true every message of the returned batch is an unread
\* message of the dialog.
C5_UnreadOnly ==
    (GetMessagesReturned /\ last.unread) =>
        \A i \in 1..Len(last.messages) :
            IsUnread(chat[last.messages[i].message_id], last.readBefore)

\* C6: called without start_date and end_date, get_messages uses the window
\* that ends at the time of the call and starts ten days before it.
C6_DefaultWindowEndsNow ==
    (GetMessagesReturned /\ last.start_omitted /\ last.end_omitted /\ ~last.unread) =>
        SameMessages(last.messages,
                     ExpectedWindow(iter_messages(chat, Now), Now - DefaultWindowDays,
                                    last.limit))

\* C7: a best-effort step that raises (mark_read, the sender's peer id) never
\* fails the call: the message is still returned, without sender_id when the
\* peer id could not be resolved, and so is every later message of the window.
C7_BestEffortSteps ==
    (last.tool = "get_messages" /\ last.iterStarted) =>
        /\ last.outcome = "returned"
        /\ SameMessages(last.messages,
                        ExpectedWindow(StreamOfCall, last.start_date, last.effLimit))
        /\ (last.markFailed \cup last.peerFailed) \subseteq ReturnedIds
        /\ \A i \in 1..Len(last.messages) :
             last.messages[i].message_id \in last.peerFailed
                => last.messages[i].sender_id = "None"

\* both steps raised for the first message and a later message was returned
C7_Witness ==
    /\ GetMessagesReturned
    /\ Len(last.messages) >= 2
    /\ last.messages[1].message_id \in last.markFailed
    /\ last.messages[1].message_id \in last.peerFailed
    /\ last.messages[2].sender_id # "None"

\* C15: when the dialog cannot be resolved, because the lookup finds no dialog
\* entry or because the lookup itself raises, get_messages still returns its
\* envelope, with the dialog absent; with unread=false the envelope holds the
\* messages of the window.
C15_DialogAbsentOnFailedLookup ==
    (last.tool = "get_messages" /\ last.lookup \in {"none", "raise"}) =>
        /\ last.outcome = "returned"
        /\ ~last.dialog.present
        /\ ~last.unread =>
             SameMessages(last.messages,
                          ExpectedWindow(StreamOfCall, last.start_date, last.limit))

\* the ids of the messages of the call's window: dated, not older than
\* start_date, within the effective limit
WindowIds ==
    LET window == ExpectedWindow(StreamOfCall, last.start_date, last.effLimit)
    IN  {window[i].id : i \in 1..Len(window)}

-----------------------------------------------------------------------------
(* Claims about the tools send_message and search_dialogs *)

\* C8: the send_message tool always hands back a string: the confirmation
\* after the message was sent once, or an error string when the send failed;
\* it never lets an exception out.
C8_SendMessageReturnsString ==
    last.tool = "send_message" =>
        /\ last.outcome = "returned"
        /\ last.value \in {"Message sent to", "error"}
        /\ last.value = "Message sent to" => last.sends = 1

\* C9: the search_dialogs tool called with a query and a limit n > 0 returns
\* at most n dialogs, each with the query as a case-insensitive substring of
\* its title or username.
C9_SearchDialogsReturnsMatches ==
    last.tool = "search_dialogs" =>
        /\ last.outcome = "returned"
        /\ Len(last.dialogs) <= last.limit
        /\ \A i \in 1..Len(last.dialogs) :
             \/ contains(lower(last.query), lower(last.dialogs[i].name))
             \/ /\ last.dialogs[i].has_username
                /\ contains(lower(last.query), lower(last.dialogs[i].username))

-----------------------------------------------------------------------------
(* Claims about app_lifespan *)

\* C10: the client is connected before the server is ready; once it has been
\* created and connected, disconnect is called exactly once on every way out
\* of the lifespan, a normal shutdown and an error alike; and no tool call
\* runs before connect or after disconnect.
C10_LifespanConnectDisconnect ==
    /\ lsPc = "ready" => tgClient # 0 /\ connectOk /\ disconnectCalls = 0
    /\ (lsPc = "exited" /\ connectOk) => disconnectCalls = 1
    /\ disconnectCalls <= 1
    /\ last.tool # "none" => connectOk /\ disconnectCalls = 0

\* the lifespan was left by an error thrown in while the server ran, and the
\* connected client was disconnected once
C10_Witness ==
    /\ lsPc = "exited" /\ connectOk
    /\ lsError = "ServerError"
    /\ disconnectCalls = 1

\* C11: with the API credentials missing, app_lifespan never reaches its yield,
\* and the error it is left with is the ValidationError of create_client: the
\* teardown raises nothing of its own.
C11_MissingCredentialsError ==
    ~credentials =>
        /\ lsPc # "ready"
        /\ lsPc = "exited" => lsError = "ValidationError"

-----------------------------------------------------------------------------
(* Claims about parse_telegram_url.  What a link is, is read off the       *)
(* string here without the pattern: its prefix up to /c/, then the channel *)
(* segment up to the next "/", then the message segment.                   *)

StartsWith(s, pre) == Len(pre) <= Len(s) /\ SubSeq(s, 1, Len(pre)) = pre

\* [http(s)://]t.me and [http(s)://]telegram.me
SupportedOrigins ==
    { scheme \o host :
        scheme \in LinkSchemes \ {<<"f", "t", "p", ":", "/", "/">>},
        host \in LinkHosts \ {<<"t", "x", "m", "e">>} }

\* what follows <origin>/c/ in the link, for each supported origin it starts with
ChannelRests(url) ==
    { SubSeq(url, Len(o) + 4, Len(url)) :
        o \in { x \in SupportedOrigins : StartsWith(url, x \o <<"/", "c", "/">>) } }

HasSlash(s) == \E i \in 1..Len(s) : s[i] = "/"

FirstSlash(s) == CHOOSE i \in 1..Len(s) : s[i] = "/" /\ \A j \in 1..(i - 1) : s[j] # "/"

ChannelSegment(rest) == SubSeq(rest, 1, FirstSlash(rest) - 1)

MessageSegment(rest) == SubSeq(rest, FirstSlash(rest) + 1, Len(rest))

\* C12: a link [http(s)://]t.me/c/<digits>/<digits> (or telegram.me) gives the
\* pair (channel id, message id) as integers; a link whose channel or message
\* segment is not all digits, a public-username link and an invite link give
\* None.
C12_ParseTelegramUrlForms ==
    fnOut # NoOut =>
        /\ \A rest \in ChannelRests(fnArg) :
             (HasSlash(rest) /\ ~HasSlash(MessageSegment(rest))) =>
                 IF IsDecimal(ChannelSegment(rest)) /\ IsDecimal(MessageSegment(rest))
                 THEN fnOut = UrlPair(IntVal(DecimalValue(ChannelSegment(rest))),
                                      DecimalValue(MessageSegment(rest)))
                 ELSE fnOut = UrlNone
        /\ \A o \in SupportedOrigins, path \in OtherPaths :
             fnArg = o \o path => fnOut = UrlNone

RECURSIVE Pow10(_)
Pow10(n) == IF n = 0 THEN 1 ELSE 10 * Pow10(n - 1)

\* the id of channel <digits> in the -100 form: the integer written -100<digits>
Minus100Form(digits) == 0 - (100 * Pow10(Len(digits)) + DecimalValue(digits))

\* C13: the entity parse_telegram_url returns for t.me/c/<channel_id>/<message_id>
\* is the channel id in the -100 form, a negative integer, never the bare
\* positive number.
C13_ChannelIdMinus100Form ==
    (fnOut # NoOut /\ fnOut.tag = "tuple") =>
        /\ fnOut.entity.tag = "int"
        /\ fnOut.entity.int < 0
        /\ \A rest \in ChannelRests(fnArg) :
             fnOut.entity.int = Minus100Form(ChannelSegment(rest))

\* the whole string is <origin>/c/<digits>/<digits>, with nothing after the
\* digits of the message id
WholeChannelForm(url) ==
    \E rest \in ChannelRests(url) :
        /\ HasSlash(rest)
        /\ IsDecimal(ChannelSegment(rest))
        /\ IsDecimal(MessageSegment(rest))

\* C22: parse_telegram_url recognizes a link only when the whole string has
\* the private-channel form: a string that carries anything after the digits
\* of the message id (t.me/c/42/7abc, t.me/c/42/7/9) is not recognized and is
\* never resolved to a pair.
C22_WholeStringRecognized ==
    (fnOut # NoOut /\ fnOut.tag = "tuple") => WholeChannelForm(fnArg)

-----------------------------------------------------------------------------
(* Claims about message_from_link *)

\* C14: message_from_link never raises: whatever the link and whatever the
\* client does (the message is not found, the fetch raises, the sender cannot
\* be resolved, the message has no date), it returns None or a Message; and for
\* a link that is not recognized it returns None without any client call.
C14_MessageFromLinkNeverRaises ==
    last.tool = "message_from_link" =>
        /\ last.outcome = "returned"
        /\ last.value \in {"None", "Message"}
        /\ (last.value = "Message") = (Len(last.messages) = 1)
        /\ parse_telegram_url(last.link) = UrlNone =>
             last.value = "None" /\ last.clientCalls = 0

\* the fetch raised something other than ValueError and TypeError, after one
\* client call, and None came back
C14_Witness ==
    /\ last.tool = "message_from_link"
    /\ last.outcome = "returned" /\ last.value = "None"
    /\ last.caught = "RPCError"
    /\ last.clientCalls = 1

-----------------------------------------------------------------------------
(* Claims about the use of the shared client *)

\* C16 (as claimed): at no time are two account-affecting client calls
\* (send_message, set_message, mark_read) in flight on the shared client,
\* whatever tool invocations the server is handling.
C16_NoTwoAccountCallsInFlight ==
    Cardinality({c \in inflight : c.op \in AccountAffecting}) <= 1

\* C16 (amended): within one tool invocation the client is used serially: the
\* invocation has at most one client call in flight, it is suspended while
\* that call is in flight, and the call is the one it stands at; calls of
\* different invocations may overlap.
C16_SerialWithinInvocation ==
    \A t \in Tasks :
        /\ Cardinality(CallsOf(t)) <= 1
        /\ \A c \in CallsOf(t) :
             tasks[t].status = "running" /\ tasks[t].awaiting /\ tasks[t].pc = c.at

\* a get_messages invocation has its second mark_read in flight, the first
\* having completed, while another invocation's call is in flight too
C16_Witness ==
    \E t \in Tasks, u \in Tasks :
        /\ t # u
        /\ CallsOf(u) # {}
        /\ \E c \in CallsOf(t) :
             /\ c.op = "mark_read"
             /\ \E i \in 1..(c.at - 1) : tasks[t].script[i].op = "mark_read"

-----------------------------------------------------------------------------
(* Claims about Dialog.from_custom_dialog *)

DialogTypes == {"user", "group", "channel", "bot"}

\* C17: every peer gets exactly one type: an individual account is "bot" when
\* its bot flag is set and "user" otherwise, a basic group and a broadcast
\* peer flagged megagroup are "group", every other broadcast peer is
\* "channel"; so "bot" occurs only for an individual account flagged as a bot.
C17_DialogClassification ==
    fnOut # NoOut =>
        /\ fnOut.type \in DialogTypes
        /\ fnArg.kind = "User" => fnOut.type = (IF fnArg.bot THEN "bot" ELSE "user")
        /\ fnArg.kind = "Chat" => fnOut.type = "group"
        /\ fnArg.kind = "Channel" =>
             fnOut.type = (IF fnArg.megagroup THEN "group" ELSE "channel")
        /\ fnOut.type = "bot" => (fnArg.kind = "User" /\ fnArg.bot)

\* a broadcast peer flagged megagroup was converted, and came out as a group
C17_Witness ==
    /\ fnOut # NoOut
    /\ fnArg.kind = "Channel" /\ fnArg.megagroup
    /\ fnOut.type = "group"

-----------------------------------------------------------------------------
(* Claims about search_contacts and search_dialogs.  Which candidates a    *)
(* query selects is stated here from the candidate's present fields.       *)

\* the searchable fields of a candidate that are present
SearchableFields(fn, c) ==
    IF fn = "search_contacts"
    THEN {f \in { [has |-> c.has_first_name, val |-> c.first_name],
                  [has |-> c.has_last_name, val |-> c.last_name],
                  [has |-> c.has_username, val |-> c.username],
                  [has |-> c.has_phone, val |-> c.phone] } : f.has}
    ELSE {f \in { [has |-> TRUE, val |-> c.name],
                  [has |-> c.has_username, val |-> c.username] } : f.has}

\* the candidates of a search: the users that are contacts, the dialogs
Candidates(fn, list) ==
    IF fn = "search_contacts" THEN SelectSeq(list, LAMBDA c : c.in_contacts)
    ELSE list

\* lower-cased q is a substring of the lower-cased value of a present field
Selects(fn, q, c) ==
    \E f \in SearchableFields(fn, c) : contains(lower(q), lower(f.val))

Ids(seq) == [i \in 1..Len(seq) |-> seq[i].id]

\* the search returned exactly these candidates, in their order
ReturnsExactly(expected) ==
    /\ fnOut.exc = "none"
    /\ Ids(fnOut.results) = Ids(expected)

\* what the claim says of a search with this query
SearchContract(query) ==
    LET all == Candidates(fnArg.fn, fnArg.candidates)
    IN  IF Falsy(query) THEN ReturnsExactly(all)
        ELSE ReturnsExactly(
                 SelectSeq(all, LAMBDA c : Selects(fnArg.fn, query.str, c)))

-----------------------------------------------------------------------------
(* Claims about get_unique_filename *)

Occurs(x, seq) == \E i \in 1..Len(seq) : seq[i] = x

\* C19: no two calls of get_unique_filename return the same name, on the same
\* message or on different ones: each returned name embeds the token
\* generated for that call, and of no other call.
C19_UniqueFilenames ==
    /\ Len(uuids) = Len(filenames)
    /\ \A i \in 1..Len(filenames) : \A j \in 1..Len(filenames) :
         /\ Occurs(uuids[j], filenames[i].name) = (i = j)
         /\ i # j => filenames[i].name # filenames[j].name

\* two calls on the same message without a file name: two names of the same
\* length that differ by their tokens alone
C19_Witness ==
    \E i \in 1..Len(filenames) : \E j \in (i + 1)..Len(filenames) :
        /\ filenames[i].message = filenames[j].message
        /\ ~filenames[i].message.has_name
        /\ Len(filenames[i].name) = Len(filenames[j].name)
        /\ filenames[i].name # filenames[j].name

-----------------------------------------------------------------------------
(* Claims about create_client *)

\* C20: whatever create_client calls are made on a Telegram instance, with or
\* without credentials passed, at most one client is constructed; the stored
\* handle, once set, is that client for good; and every create_client call and
\* every read of client that returns, returns it.
C20_SingleClient ==
    /\ clientsBuilt <= 1
    /\ tgClient = clientsBuilt
    /\ \A i \in 1..Len(fnOut) : fnOut[i].exc = "none" => fnOut[i].client = 1
    /\ \A i \in 1..Len(fnOut) : \A j \in i..Len(fnOut) :
         fnOut[i].exc = "none" => fnOut[j] = fnOut[i]

\* the client was created from credentials passed in, and a later call that
\* passes none, with none in the environment either, returned the same handle
C20_Witness ==
    /\ Len(fnOut) = 2
    /\ fnArg[1].fn = "create_client" /\ fnArg[1].api_id /\ fnArg[1].api_hash
    /\ fnArg[2].fn = "create_client" /\ ~fnArg[2].api_id /\ ~fnArg[2].api_hash
    /\ ~credentials
    /\ fnOut[1].exc = "none" /\ fnOut[2] = fnOut[1]

=============================================================================
